---- MODULE Spec2Model ----
(***************************************************************************)
(* Model of powerpoint-toolkit/scripts/thumbnails.py: the command `main`   *)
(* and the pipeline `generate_thumbnails` (deck -> pdf -> raster pages ->  *)
(* contact sheet).  External processes, image decoding and file writes are *)
(* nondeterministic in their outcome; the control flow is the script's.    *)
(***************************************************************************)
EXTENDS Integers, Sequences, FiniteSets, TLC

VARIABLES
    pc,            \* position of the single thread of control
    fileExists,    \* Path(args.file).exists()
    cols,          \* args.cols
    outFile,       \* state of "<output_prefix>.jpg" on disk
    outFile0,      \* state of "<output_prefix>.jpg" before the run
    tmpdir,        \* "none" | "exists" | "removed"
    tmpFiles,      \* files inside the temporary directory
    spawned,       \* external processes started so far, in order
    status,        \* per external process: "notrun" | "ok" | "nonzero" | "timeout"
    renderStderr,  \* result.stderr of the soffice call
    primaryYield,  \* number of slide-*.jpg files found after the primary extraction, -1 before
    fallbackYield, \* number of slide-*.png files found after the fallback extraction, -1 before
    pdf_path,      \* chosen page-description file
    slide_images,  \* sorted list of raster files
    images,        \* decoded images, <<width, height>> each
    layout,        \* thumb_h, rows, grid_w, grid_h
    cells,         \* what was painted on the grid, in order
    retKind,       \* how generate_thumbnails ended: "none" | "return" | "raise"
    raised,        \* exception in flight, "none" if none
    result,        \* value returned by generate_thumbnails
    stdout,        \* what was printed on standard output, in order
    exitStatus     \* process exit status, -1 while running

vars == <<pc, fileExists, cols, outFile, outFile0, tmpdir, tmpFiles, spawned, status,
          renderStderr, primaryYield, fallbackYield, pdf_path, slide_images, images,
          layout, cells, retKind, raised, result, stdout, exitStatus>>

----------------------------------------------------------------------------
(* Bounds *)
MaxPages == 3
MaxCols == 3
MaxImages == 10
MaxGridCols == 4

(* Program constants *)
thumb_w == 400
padding == 10
label_h == 20

ImageSizes == { <<4, 3>>, <<3, 2>>, <<16, 9>> }
Diagnostics == { "", "soffice: conversion error" }
output_prefix == "thumbnails"
FileArg == "deck.pptx"

NoFile == [stem |-> "", page |-> 0, ext |-> ""]
NoLayout == [thumb_h |-> 0, rows |-> 0, grid_w |-> 0, grid_h |-> 0]
NoResult == [n \in {} |-> ""]

(* filepath.with_suffix(".pdf").name, and another name soffice may choose *)
ExpectedPdf == [stem |-> "deck", page |-> 0, ext |-> "pdf"]
AlternatePdf == [stem |-> "deck_1", page |-> 0, ext |-> "pdf"]

(* pdftoppm writes <img_prefix>-<page>.<ext> for the pages it gets to *)
SlideFiles(n, e) == { [stem |-> "slide", page |-> p, ext |-> e] : p \in 1..n }

(* Path(tmpdir).glob("*.pdf") / glob("slide-*.<ext>") *)
GlobPdf(files) == { f \in files : f.ext = "pdf" }
GlobSlides(files, e) == { f \in files : f.stem = "slide" /\ f.ext = e }

(* sorted(paths): pdftoppm pads the page number, so name order is page order *)
RECURSIVE SortedDesc(_)
SortedDesc(S) ==
    IF S = {} THEN <<>>
    ELSE LET m == CHOOSE f \in S : \A g \in S : g.page <= f.page
         IN  <<m>> \o SortedDesc(S \ {m})

RECURSIVE Sorted(_)
Sorted(S) ==
    IF S = {} THEN <<>>
    ELSE LET m == CHOOSE f \in S : \A g \in S : f.page <= g.page
         IN  <<m>> \o Sorted(S \ {m})

(* `if not slide_images:` after the primary extraction *)
NeedFallbackAlways(imgs) == TRUE

NeedFallback(imgs) == imgs = <<>>

(* tempfile.TemporaryDirectory().__exit__: runs on return and on exception *)
TempDirExitOnReturnOnly(how) == IF how = "raise" THEN "exists" ELSE "removed"

TempDirExit(how) == "removed"

(* the two return values of generate_thumbnails that report a failure, and the success value *)
PdfErrorResultBoth(stderr) ==
    [error |-> "PDF conversion failed: " \o stderr, output |-> output_prefix \o ".jpg"]

PdfErrorResult(stderr) == [error |-> "PDF conversion failed: " \o stderr]

ImagesErrorResult ==
    [error |-> "Failed to convert PDF pages to images. Ensure pdftoppm (poppler) is installed."]

(* math.ceil(n / c) for n >= 0, c >= 1 *)
CeilFloor(n, c) == n \div c

Ceil(n, c) == (n + c - 1) \div c

SuccessResult(n, rows, c) ==
    [output |-> output_prefix \o ".jpg",
     slides |-> n,
     grid   |-> ToString(rows) \o "x" \o ToString(c)]

(* lines 52-60: geometry from the first image, the image count and cols *)
GeometryRound(imgs, c) ==
    LET th == (2 * thumb_w * imgs[1][2] + imgs[1][1]) \div (2 * imgs[1][1])
        rw == Ceil(Len(imgs), c)
    IN  [thumb_h |-> th,
         rows    |-> rw,
         grid_w  |-> c * (thumb_w + padding) + padding,
         grid_h  |-> rw * (th + padding + label_h) + padding]

Geometry(imgs, c) ==
    LET th == (thumb_w * imgs[1][2]) \div imgs[1][1]
        rw == Ceil(Len(imgs), c)
    IN  [thumb_h |-> th,
         rows    |-> rw,
         grid_w  |-> c * (thumb_w + padding) + padding,
         grid_h  |-> rw * (th + padding + label_h) + padding]

(* lines 67-75: one paste and one label per image, i is the 0-based index *)
CellSwapped(i, file, th, c) ==
    LET r == i % c
        k == i \div c
        x == padding + k * (thumb_w + padding)
        y == padding + r * (th + padding + label_h)
    IN  [index |-> i, file |-> file, size |-> <<thumb_w, th>>,
         paste |-> <<x, y + label_h>>,
         text  |-> "Slide " \o ToString(i), textAt |-> <<x + 4, y + 2>>]

CellNoLabelRow(i, file, th, c) ==
    LET r == i \div c
        k == i % c
        x == padding + k * (thumb_w + padding)
        y == padding + r * (th + padding)
    IN  [index |-> i, file |-> file, size |-> <<thumb_w, th>>,
         paste |-> <<x, y + label_h>>,
         text  |-> "Slide " \o ToString(i), textAt |-> <<x + 4, y + 2>>]

Cell(i, file, th, c) ==
    LET r == i \div c
        k == i % c
        x == padding + k * (thumb_w + padding)
        y == padding + r * (th + padding + label_h)
    IN  [index |-> i, file |-> file, size |-> <<thumb_w, th>>,
         paste |-> <<x, y + label_h>>,
         text  |-> "Slide " \o ToString(i), textAt |-> <<x + 4, y + 2>>]

Paint(files, th, c) == [j \in 1..Len(files) |-> Cell(j - 1, files[j], th, c)]

----------------------------------------------------------------------------
Init ==
    /\ pc = "main"
    /\ fileExists \in BOOLEAN
    /\ cols \in 1..MaxCols
    /\ outFile0 \in {"absent", "stale"}
    /\ outFile = outFile0
    /\ tmpdir = "none"
    /\ tmpFiles = {}
    /\ spawned = <<>>
    /\ status = [p \in {"soffice", "pdftoppm-jpeg", "pdftoppm-png"} |-> "notrun"]
    /\ renderStderr = ""
    /\ primaryYield = -1
    /\ fallbackYield = -1
    /\ pdf_path = NoFile
    /\ slide_images = <<>>
    /\ images = <<>>
    /\ layout = NoLayout
    /\ cells = <<>>
    /\ retKind = "none"
    /\ raised = "none"
    /\ result = NoResult
    /\ stdout = <<>>
    /\ exitStatus = -1

(* leaving the `with` block by an exception *)
Raise(exc) ==
    /\ raised' = exc
    /\ retKind' = "raise"
    /\ tmpdir' = TempDirExit("raise")
    /\ tmpFiles' = IF TempDirExit("raise") = "removed" THEN {} ELSE tmpFiles
    /\ pc' = "raised"
    /\ UNCHANGED result

(* leaving the `with` block by a return statement *)
Return(value) ==
    /\ result' = value
    /\ retKind' = "return"
    /\ tmpdir' = TempDirExit("return")
    /\ tmpFiles' = IF TempDirExit("return") = "removed" THEN {} ELSE tmpFiles
    /\ pc' = "returned"
    /\ UNCHANGED raised

(* main, lines 94-96: the file is missing *)
MainFileNotFound ==
    /\ pc = "main"
    /\ ~fileExists
    /\ stdout' = Append(stdout, [fmt |-> "text", text |-> "Error: File not found: " \o FileArg])
    /\ exitStatus' = 1
    /\ pc' = "exited"
    /\ UNCHANGED <<fileExists, cols, outFile, outFile0, tmpdir, tmpFiles, spawned, status,
                   renderStderr, primaryYield, fallbackYield, pdf_path, slide_images, images,
                   layout, cells, retKind, raised, result>>

(* main, line 99, and line 16: generate_thumbnails is entered, the directory is created *)
MainCallGenerate ==
    /\ pc = "main"
    /\ fileExists
    /\ tmpdir' = "exists"
    /\ pc' = "render"
    /\ UNCHANGED <<fileExists, cols, outFile, outFile0, tmpFiles, spawned, status,
                   renderStderr, primaryYield, fallbackYield, pdf_path, slide_images, images,
                   layout, cells, retKind, raised, result, stdout, exitStatus>>

(* lines 18-21: soffice exceeds the timeout, subprocess.run raises TimeoutExpired *)
RenderPagesTimeout ==
    /\ pc = "render"
    /\ spawned' = Append(spawned, "soffice")
    /\ status' = [status EXCEPT !["soffice"] = "timeout"]
    /\ Raise("TimeoutExpired")
    /\ UNCHANGED <<fileExists, cols, outFile, outFile0, renderStderr, primaryYield,
                   fallbackYield, pdf_path, slide_images, images, layout, cells,
                   stdout, exitStatus>>

(* lines 18-21: soffice ends with some exit code, having written some pdf files or none *)
RenderPagesDone ==
    /\ pc = "render"
    /\ \E st \in {"ok", "nonzero"}, made \in SUBSET {ExpectedPdf, AlternatePdf},
          diag \in Diagnostics :
          /\ spawned' = Append(spawned, "soffice")
          /\ status' = [status EXCEPT !["soffice"] = st]
          /\ tmpFiles' = tmpFiles \cup made
          /\ renderStderr' = diag
    /\ pc' = "locate"
    /\ UNCHANGED <<fileExists, cols, outFile, outFile0, tmpdir, primaryYield, fallbackYield,
                   pdf_path, slide_images, images, layout, cells, retKind, raised, result,
                   stdout, exitStatus>>

(* lines 23-29: the pdf is found under the expected name or by scanning the directory *)
LocatePdfFound ==
    /\ pc = "locate"
    /\ GlobPdf(tmpFiles) # {}
    /\ IF ExpectedPdf \in tmpFiles
          THEN pdf_path' = ExpectedPdf
          ELSE pdf_path' \in GlobPdf(tmpFiles)
    /\ pc' = "primary"
    /\ UNCHANGED <<fileExists, cols, outFile, outFile0, tmpdir, tmpFiles, spawned, status,
                   renderStderr, primaryYield, fallbackYield, slide_images, images, layout,
                   cells, retKind, raised, result, stdout, exitStatus>>

(* lines 24-28: no pdf in the directory, the error value is returned *)
LocatePdfMissing ==
    /\ pc = "locate"
    /\ GlobPdf(tmpFiles) = {}
    /\ Return(PdfErrorResult(renderStderr))
    /\ UNCHANGED <<fileExists, cols, outFile, outFile0, spawned, status, renderStderr,
                   primaryYield, fallbackYield, pdf_path, slide_images, images, layout,
                   cells, stdout, exitStatus>>

(* lines 33-36: pdftoppm -jpeg exceeds the timeout *)
ExtractPrimaryTimeout ==
    /\ pc = "primary"
    /\ spawned' = Append(spawned, "pdftoppm-jpeg")
    /\ status' = [status EXCEPT !["pdftoppm-jpeg"] = "timeout"]
    /\ Raise("TimeoutExpired")
    /\ UNCHANGED <<fileExists, cols, outFile, outFile0, renderStderr, primaryYield,
                   fallbackYield, pdf_path, slide_images, images, layout, cells,
                   stdout, exitStatus>>

(* lines 33-39: pdftoppm -jpeg ends, the jpg files are listed and sorted *)
ExtractPrimaryDone ==
    /\ pc = "primary"
    /\ \E st \in {"ok", "nonzero"}, k \in 0..MaxPages :
          /\ spawned' = Append(spawned, "pdftoppm-jpeg")
          /\ status' = [status EXCEPT !["pdftoppm-jpeg"] = st]
          /\ tmpFiles' = tmpFiles \cup SlideFiles(k, "jpg")
    /\ slide_images' = Sorted(GlobSlides(tmpFiles', "jpg"))
    /\ primaryYield' = Len(slide_images')
    /\ pc' = IF NeedFallback(slide_images') THEN "fallback" ELSE "check"
    /\ UNCHANGED <<fileExists, cols, outFile, outFile0, tmpdir, renderStderr, fallbackYield,
                   pdf_path, images, layout, cells, retKind, raised, result, stdout,
                   exitStatus>>

(* lines 41-44: pdftoppm -png exceeds the timeout *)
ExtractFallbackTimeout ==
    /\ pc = "fallback"
    /\ spawned' = Append(spawned, "pdftoppm-png")
    /\ status' = [status EXCEPT !["pdftoppm-png"] = "timeout"]
    /\ Raise("TimeoutExpired")
    /\ UNCHANGED <<fileExists, cols, outFile, outFile0, renderStderr, primaryYield,
                   fallbackYield, pdf_path, slide_images, images, layout, cells,
                   stdout, exitStatus>>

(* lines 41-45: pdftoppm -png ends, the png files are listed and sorted *)
ExtractFallbackDone ==
    /\ pc = "fallback"
    /\ \E st \in {"ok", "nonzero"}, k \in 0..MaxPages :
          /\ spawned' = Append(spawned, "pdftoppm-png")
          /\ status' = [status EXCEPT !["pdftoppm-png"] = st]
          /\ tmpFiles' = tmpFiles \cup SlideFiles(k, "png")
    /\ slide_images' = Sorted(GlobSlides(tmpFiles', "png"))
    /\ fallbackYield' = Len(slide_images')
    /\ pc' = "check"
    /\ UNCHANGED <<fileExists, cols, outFile, outFile0, tmpdir, renderStderr, primaryYield,
                   pdf_path, images, layout, cells, retKind, raised, result, stdout,
                   exitStatus>>

(* lines 47-48: no raster file at all, the error value is returned *)
CheckSlideImagesEmpty ==
    /\ pc = "check"
    /\ slide_images = <<>>
    /\ Return(ImagesErrorResult)
    /\ UNCHANGED <<fileExists, cols, outFile, outFile0, spawned, status, renderStderr,
                   primaryYield, fallbackYield, pdf_path, slide_images, images, layout,
                   cells, stdout, exitStatus>>

(* line 47: there are raster files, the run goes on *)
CheckSlideImagesPresent ==
    /\ pc = "check"
    /\ slide_images # <<>>
    /\ pc' = "load"
    /\ UNCHANGED <<fileExists, cols, outFile, outFile0, tmpdir, tmpFiles, spawned, status,
                   renderStderr, primaryYield, fallbackYield, pdf_path, slide_images, images,
                   layout, cells, retKind, raised, result, stdout, exitStatus>>

(* line 51: Image.open raises on a file that is not an image *)
LoadImagesFailed ==
    /\ pc = "load"
    /\ Raise("UnidentifiedImageError")
    /\ UNCHANGED <<fileExists, cols, outFile, outFile0, spawned, status, renderStderr,
                   primaryYield, fallbackYield, pdf_path, slide_images, images, layout,
                   cells, stdout, exitStatus>>

(* lines 51-60: every file opens; the geometry is computed *)
LoadImagesDone ==
    /\ pc = "load"
    /\ images' \in [1..Len(slide_images) -> ImageSizes]
    /\ layout' = Geometry(images', cols)
    /\ pc' = "compose"
    /\ UNCHANGED <<fileExists, cols, outFile, outFile0, tmpdir, tmpFiles, spawned, status,
                   renderStderr, primaryYield, fallbackYield, pdf_path, slide_images, cells,
                   retKind, raised, result, stdout, exitStatus>>

(* lines 62-75: Image.new, resize or paste raises (the pixel data is decoded here) *)
ComposeGridFailed ==
    /\ pc = "compose"
    /\ Raise("OSError:compose")
    /\ UNCHANGED <<fileExists, cols, outFile, outFile0, spawned, status, renderStderr,
                   primaryYield, fallbackYield, pdf_path, slide_images, images, layout,
                   cells, stdout, exitStatus>>

(* lines 62-75: the canvas is created and every image is pasted and labelled *)
ComposeGridDone ==
    /\ pc = "compose"
    /\ cells' = Paint(slide_images, layout.thumb_h, cols)
    /\ pc' = "save"
    /\ UNCHANGED <<fileExists, cols, outFile, outFile0, tmpdir, tmpFiles, spawned, status,
                   renderStderr, primaryYield, fallbackYield, pdf_path, slide_images, images,
                   layout, retKind, raised, result, stdout, exitStatus>>

(* lines 77-78: grid.save writes straight to "<prefix>.jpg" and raises: either the file *)
(* could not be opened (nothing changes), or it was opened for writing (an existing file *)
(* is truncated) and the encoder failed; Pillow may remove a file it created itself.     *)
SaveGridFailed ==
    /\ pc = "save"
    /\ \/ outFile' = outFile
       \/ outFile' = "partial"
    /\ Raise("OSError:save")
    /\ UNCHANGED <<fileExists, cols, outFile0, spawned, status, renderStderr,
                   primaryYield, fallbackYield, pdf_path, slide_images, images, layout,
                   cells, stdout, exitStatus>>

(* lines 77-83: the file is written, the images are closed, the success value is returned *)
SaveGridDone ==
    /\ pc = "save"
    /\ outFile' = "complete"
    /\ Return(SuccessResult(Len(images), layout.rows, cols))
    /\ UNCHANGED <<fileExists, cols, outFile0, spawned, status, renderStderr,
                   primaryYield, fallbackYield, pdf_path, slide_images, images, layout,
                   cells, stdout, exitStatus>>

(* main, line 100: the returned value is printed as JSON; main returns, exit status 0 *)
MainPrintResult ==
    /\ pc = "returned"
    /\ stdout' = Append(stdout, [fmt |-> "json", obj |-> result])
    /\ exitStatus' = 0
    /\ pc' = "exited"
    /\ UNCHANGED <<fileExists, cols, outFile, outFile0, tmpdir, tmpFiles, spawned, status,
                   renderStderr, primaryYield, fallbackYield, pdf_path, slide_images, images,
                   layout, cells, retKind, raised, result>>

(* main, line 99: an exception of generate_thumbnails is not caught; the interpreter *)
(* prints a traceback on standard error and exits with status 1                      *)
MainUnhandled ==
    /\ pc = "raised"
    /\ exitStatus' = 1
    /\ pc' = "exited"
    /\ UNCHANGED <<fileExists, cols, outFile, outFile0, tmpdir, tmpFiles, spawned, status,
                   renderStderr, primaryYield, fallbackYield, pdf_path, slide_images, images,
                   layout, cells, retKind, raised, result, stdout>>

Next ==
    \/ MainFileNotFound
    \/ MainCallGenerate
    \/ RenderPagesTimeout
    \/ RenderPagesDone
    \/ LocatePdfFound
    \/ LocatePdfMissing
    \/ ExtractPrimaryTimeout
    \/ ExtractPrimaryDone
    \/ ExtractFallbackTimeout
    \/ ExtractFallbackDone
    \/ CheckSlideImagesEmpty
    \/ CheckSlideImagesPresent
    \/ LoadImagesFailed
    \/ LoadImagesDone
    \/ ComposeGridFailed
    \/ ComposeGridDone
    \/ SaveGridFailed
    \/ SaveGridDone
    \/ MainPrintResult
    \/ MainUnhandled

Spec == Init /\ [][Next]_vars

----------------------------------------------------------------------------
(* The composer on larger inputs: the run has reached line 51 with n raster files *)
(* from the primary extraction; the first image and the others take any size.     *)
ComposerInit ==
    /\ pc = "load"
    /\ fileExists = TRUE
    /\ cols \in 1..MaxGridCols
    /\ outFile0 \in {"absent", "stale"}
    /\ outFile = outFile0
    /\ tmpdir = "exists"
    /\ \E n \in 1..MaxImages :
          /\ tmpFiles = {ExpectedPdf} \cup SlideFiles(n, "jpg")
          /\ slide_images = Sorted(SlideFiles(n, "jpg"))
          /\ primaryYield = n
    /\ spawned = <<"soffice", "pdftoppm-jpeg">>
    /\ status = [p \in {"soffice", "pdftoppm-jpeg", "pdftoppm-png"} |->
                    IF p = "pdftoppm-png" THEN "notrun" ELSE "ok"]
    /\ renderStderr = ""
    /\ fallbackYield = -1
    /\ pdf_path = ExpectedPdf
    /\ images = <<>>
    /\ layout = NoLayout
    /\ cells = <<>>
    /\ retKind = "none"
    /\ raised = "none"
    /\ result = NoResult
    /\ stdout = <<>>
    /\ exitStatus = -1

(* lines 51-60, as LoadImagesDone, the images after the first sharing one size *)
LoadImagesUniform ==
    /\ pc = "load"
    /\ \E first \in ImageSizes, rest \in ImageSizes :
          images' = [j \in 1..Len(slide_images) |-> IF j = 1 THEN first ELSE rest]
    /\ layout' = Geometry(images', cols)
    /\ pc' = "compose"
    /\ UNCHANGED <<fileExists, cols, outFile, outFile0, tmpdir, tmpFiles, spawned, status,
                   renderStderr, primaryYield, fallbackYield, pdf_path, slide_images, cells,
                   retKind, raised, result, stdout, exitStatus>>

ComposerNext ==
    \/ LoadImagesFailed
    \/ LoadImagesUniform
    \/ ComposeGridFailed
    \/ ComposeGridDone
    \/ SaveGridFailed
    \/ SaveGridDone
    \/ MainPrintResult
    \/ MainUnhandled

ComposerSpec == ComposerInit /\ [][ComposerNext]_vars

----------------------------------------------------------------------------
(* Shorthands used by the properties *)
Started(p) == \E i \in DOMAIN spawned : spawned[i] = p
TimesStarted(p) == Cardinality({ i \in DOMAIN spawned : spawned[i] = p })
IsSuccessPayload(r) == DOMAIN r = {"output", "slides", "grid"}
IsErrorPayload(r) == DOMAIN r = {"error"}
RunFailed == retKind = "raise" \/ (retKind = "return" /\ "error" \in DOMAIN result)

(* C1: the fallback extraction (pdftoppm -png) is started at most once, only after the *)
(* primary extraction (pdftoppm -jpeg) has completed with zero matching files, and     *)
(* never when the primary extraction yielded at least one file.                        *)
C1_FallbackOnlyAfterEmptyPrimary ==
    /\ TimesStarted("pdftoppm-png") <= 1
    /\ \A i \in DOMAIN spawned :
          spawned[i] = "pdftoppm-png" =>
             /\ \E j \in 1..(i - 1) : spawned[j] = "pdftoppm-jpeg"
             /\ status["pdftoppm-jpeg"] \in {"ok", "nonzero"}
             /\ primaryYield = 0
    /\ primaryYield >= 1 =>
          /\ ~Started("pdftoppm-png")
          /\ status["pdftoppm-png"] = "notrun"
          /\ pc # "fallback"

C1_Witness == Started("pdftoppm-png") /\ primaryYield = 0 /\ fallbackYield >= 1

(* C2: once generate_thumbnails has returned or unwound by an exception, the temporary *)
(* directory and the files in it no longer exist.                                      *)
C2_TempDirRemovedOnEveryExit ==
    retKind # "none" => tmpdir = "removed" /\ tmpFiles = {}

C2_Witness == retKind = "raise" /\ raised = "OSError:save" /\ tmpdir = "removed"

(* C3: for every invocation and every outcome exactly one JSON object is printed on    *)
(* standard output, and it is the success payload or an object with an error field.    *)
C3_OneJsonObjectAlways ==
    pc = "exited" =>
       /\ Len(stdout) = 1
       /\ stdout[1].fmt = "json"
       /\ IsSuccessPayload(stdout[1].obj) \/ "error" \in DOMAIN stdout[1].obj

(* C4: when the file argument names no existing file, the JSON object                  *)
(* {"error": "File not found: <file>"} is printed, the exit status is 1 and no         *)
(* external process has been started.                                                  *)
C4_MissingFileJsonError ==
    (pc = "exited" /\ ~fileExists) =>
       /\ Len(stdout) = 1
       /\ stdout[1].fmt = "json"
       /\ stdout[1].obj = [error |-> "File not found: " \o FileArg]
       /\ exitStatus = 1
       /\ spawned = <<>>

(* C5: a run whose generate_thumbnails produced an error result exits non-zero, and    *)
(* the exit status is 0 only when the success payload was printed.                     *)
C5_ExitStatusReflectsOutcome ==
    pc = "exited" =>
       /\ (retKind = "return" /\ "error" \in DOMAIN result) => exitStatus # 0
       /\ exitStatus = 0 =>
             /\ Len(stdout) = 1
             /\ stdout[1].fmt = "json"
             /\ IsSuccessPayload(stdout[1].obj)

(* C6: when the renderer exits non-zero or leaves no pdf file, the run ends with the   *)
(* conversion error carrying the renderer's diagnostic output and the raster           *)
(* extraction is never started, also when a pdf file is present after a non-zero exit. *)
C6_RenderFailureStopsRun ==
    LET located == pc \notin {"main", "render", "locate"}
        failed  == \/ status["soffice"] = "nonzero"
                   \/ status["soffice"] = "ok" /\ pdf_path = NoFile
    IN  (located /\ failed) =>
           /\ retKind = "return"
           /\ result = [error |-> "PDF conversion failed: " \o renderStderr]
           /\ ~Started("pdftoppm-jpeg")

(* C7: for each external process, exceeding the timeout ends the run in the failed     *)
(* state with a conversion-error result reported to the caller, as a failed exit does. *)
C7_TimeoutIsConversionError ==
    \A p \in DOMAIN status :
       status[p] = "timeout" =>
          /\ retKind = "return"
          /\ IsErrorPayload(result)
          /\ pc = "exited" => (Len(stdout) = 1 /\ stdout[1].fmt = "json")

(* C8: whenever a run ends in failure, the output file "<prefix>.jpg" has not been     *)
(* written by that run, not even partially.                                            *)
C8_NoOutputOnFailure ==
    RunFailed => outFile = outFile0

(* C9: when the primary extraction yields no file and the fallback yields M > 0 files, *)
(* the run passes the emptiness gate and what it composes and returns is what a run    *)
(* whose primary extraction yielded the same M pages composes and returns: M slides in *)
(* page order, the same rows, canvas, placements and labels; the composed files are    *)
(* all of one encoding.                                                                *)
C9_FallbackSameAsPrimary ==
    LET M   == IF primaryYield > 0 THEN primaryYield ELSE fallbackYield
        enc == IF primaryYield > 0 THEN "jpg" ELSE "png"
        th  == layout.thumb_h
    IN  (primaryYield > 0 \/ (primaryYield = 0 /\ fallbackYield > 0)) =>
           /\ ~(retKind = "return" /\ "error" \in DOMAIN result)
           /\ Len(slide_images) = M
           /\ \A j \in 1..M : slide_images[j].page = j /\ slide_images[j].ext = enc
           /\ images # <<>> =>
                 /\ Len(images) = M
                 /\ layout.rows * cols >= M /\ (layout.rows - 1) * cols < M
                 /\ layout.grid_w = cols * 410 + 10
                 /\ layout.grid_h = layout.rows * (th + 30) + 10
           /\ cells # <<>> =>
                 /\ Len(cells) = M
                 /\ \A j \in 1..M :
                       /\ cells[j].file = slide_images[j]
                       /\ cells[j].index = j - 1
                       /\ cells[j].text = "Slide " \o ToString(j - 1)
                       /\ cells[j].paste = <<10 + ((j - 1) % cols) * 410,
                                             10 + ((j - 1) \div cols) * (th + 30) + 20>>
           /\ retKind = "return" =>
                 result = [output |-> "thumbnails.jpg", slides |-> M,
                           grid |-> ToString(layout.rows) \o "x" \o ToString(cols)]

C9_Witness ==
    /\ primaryYield = 0 /\ fallbackYield >= 2
    /\ retKind = "return" /\ IsSuccessPayload(result) /\ result.slides = fallbackYield

(* C10: every value returned by generate_thumbnails is either the success variant      *)
(* (output, slides, grid; no error) or the failure variant (error only).               *)
C10_ResultVariantsExclusive ==
    retKind = "return" =>
       /\ IsSuccessPayload(result) \/ IsErrorPayload(result)
       /\ ~(IsSuccessPayload(result) /\ IsErrorPayload(result))
       /\ DOMAIN result \cap {"output", "slides", "grid"} # {} => "error" \notin DOMAIN result

C10_Witness == retKind = "return" /\ IsErrorPayload(result) /\ status["soffice"] = "nonzero"

(* C11: for N >= 1 images and C >= 1 columns the composer uses rows = ceil(N / C),     *)
(* canvas_w = C*(400+10)+10 and canvas_h = rows*(thumb_h+10+20)+10, and returns        *)
(* slides = N with the grid descriptor "{rows}x{C}"; N=10, C=4 gives rows=3 and        *)
(* canvas_w=1650; N=1 gives rows=1 for every C.                                        *)
C11_GridGeometry ==
    LET N == Len(images)
    IN  /\ images # <<>> =>
              /\ N = Len(slide_images)
              /\ layout.rows >= 1
              /\ layout.rows * cols >= N
              /\ (layout.rows - 1) * cols < N
              /\ layout.grid_w = cols * (400 + 10) + 10
              /\ layout.grid_h = layout.rows * (layout.thumb_h + 10 + 20) + 10
              /\ (N = 10 /\ cols = 4) => (layout.rows = 3 /\ layout.grid_w = 1650)
              /\ N = 1 => layout.rows = 1
        /\ (retKind = "return" /\ IsSuccessPayload(result)) =>
              /\ result.slides = N
              /\ result.grid = ToString(layout.rows) \o "x" \o ToString(cols)
              /\ (N = 10 /\ cols = 4) => result.grid = "3x4"

C11_Witness ==
    /\ Len(images) = 10 /\ cols = 4
    /\ retKind = "return" /\ IsSuccessPayload(result)
    /\ result.slides = 10 /\ result.grid = "3x4"

(* C12 as stated: the shared thumbnail height is the integer nearest to 400*H0/W0 of   *)
(* the first image (W0 x H0), and every image is resized to (400, thumb_h).            *)
C12_ThumbHeightRounded ==
    images # <<>> =>
       LET W0 == images[1][1]
           H0 == images[1][2]
           d  == layout.thumb_h * W0 - 400 * H0
       IN  /\ 2 * (IF d < 0 THEN -d ELSE d) <= W0
           /\ \A j \in DOMAIN cells : cells[j].size = <<400, layout.thumb_h>>

(* C12 amended: the shared thumbnail height is 400*H0/W0 of the first image truncated  *)
(* to an integer (floor), whatever the sizes of the other images, and every image is   *)
(* resized to (400, thumb_h).                                                          *)
C12_ThumbHeightTruncated ==
    images # <<>> =>
       LET W0 == images[1][1]
           H0 == images[1][2]
           th == layout.thumb_h
       IN  /\ th * W0 <= 400 * H0
           /\ 400 * H0 < (th + 1) * W0
           /\ \A j \in DOMAIN cells : cells[j].size = <<400, th>>

C12_Witness ==
    /\ Len(images) >= 2 /\ images[1] = <<3, 2>> /\ images[2] = <<16, 9>>
    /\ layout.thumb_h = 266
    /\ Len(cells) = Len(images)

(* C13: for every index i in [0, N) exactly one thumbnail, the image at position i of  *)
(* the sorted raster files, is pasted at (10 + (i % C)*410, 10 + (i // C)*(thumb_h+30) *)
(* + 20), and exactly one label "Slide i" is drawn in the label strip of the same      *)
(* cell, at its top-left (offset (4, 2)), above the thumbnail.                         *)
C13_PlacementAndLabels ==
    cells # <<>> =>
       LET N  == Len(images)
           th == layout.thumb_h
       IN  /\ Len(cells) = N
           /\ \A i \in 0..(N - 1) :
                 LET cx == 10 + (i % cols) * (400 + 10)
                     cy == 10 + (i \div cols) * (th + 10 + 20)
                 IN  /\ Cardinality({ j \in DOMAIN cells : cells[j].index = i }) = 1
                     /\ Cardinality({ j \in DOMAIN cells :
                                         cells[j].text = "Slide " \o ToString(i) }) = 1
                     /\ cells[i + 1].index = i
                     /\ cells[i + 1].file = slide_images[i + 1]
                     /\ cells[i + 1].file.page = i + 1
                     /\ cells[i + 1].paste = <<cx, cy + 20>>
                     /\ cells[i + 1].text = "Slide " \o ToString(i)
                     /\ cells[i + 1].textAt = <<cx + 4, cy + 2>>
                     /\ cells[i + 1].textAt[2] < cells[i + 1].paste[2]

C13_Witness ==
    /\ Len(cells) = 10 /\ cols = 4
    /\ cells[10].text = "Slide 9"
    /\ cells[10].paste[1] = 420

(* C14: the stages run only in the order render, primary extraction, optional fallback *)
(* extraction, load, compose, write, and once an external process has exited non-zero  *)
(* or timed out no later stage runs: no further process is started, nothing is loaded, *)
(* composed or written, and the run ends failed.                                       *)
C14_ForwardOnlyAndFailFast ==
    /\ \E n \in 0..3 : spawned = SubSeq(<<"soffice", "pdftoppm-jpeg", "pdftoppm-png">>, 1, n)
    /\ images # <<>> => (Started("pdftoppm-jpeg") /\ slide_images # <<>>)
    /\ cells # <<>> => images # <<>>
    /\ outFile # outFile0 => cells # <<>>
    /\ (status["soffice"] \in {"nonzero", "timeout"} /\ pc # "locate") =>
          ~Started("pdftoppm-jpeg") /\ RunFailed
    /\ status["pdftoppm-jpeg"] \in {"nonzero", "timeout"} =>
          /\ ~Started("pdftoppm-png")
          /\ pc \notin {"fallback", "load", "compose", "save"}
          /\ images = <<>>
          /\ retKind = "return" => "error" \in DOMAIN result
    /\ status["pdftoppm-png"] \in {"nonzero", "timeout"} =>
          /\ pc \notin {"load", "compose", "save"}
          /\ images = <<>>
          /\ retKind = "return" => "error" \in DOMAIN result

(* C15: every cell (label strip of height 20 on top of the 400 x thumb_h thumbnail)    *)
(* lies inside the canvas, the cells of two different indices do not overlap, and the  *)
(* row count is minimal: (rows-1)*C < N <= rows*C.                                     *)
C15_CellsInsideCanvasDisjoint ==
    cells # <<>> =>
       LET N  == Len(cells)
           th == layout.thumb_h
           L(j) == cells[j].paste[1]
           T(j) == cells[j].paste[2] - 20
           R(j) == cells[j].paste[1] + 400
           B(j) == cells[j].paste[2] + th
       IN  /\ th > 0
           /\ \A j \in 1..N :
                 /\ 0 <= L(j) /\ R(j) <= layout.grid_w
                 /\ 0 <= T(j) /\ B(j) <= layout.grid_h
                 /\ cells[j].size = <<400, th>>
                 /\ L(j) <= cells[j].textAt[1] /\ cells[j].textAt[1] < R(j)
                 /\ T(j) <= cells[j].textAt[2] /\ cells[j].textAt[2] < cells[j].paste[2]
           /\ \A i, j \in 1..N :
                 i # j => (R(i) <= L(j) \/ R(j) <= L(i) \/ B(i) <= T(j) \/ B(j) <= T(i))
           /\ (layout.rows - 1) * cols < N
           /\ N <= layout.rows * cols

C15_Witness ==
    /\ Len(cells) = 9 /\ cols = 4 /\ layout.rows = 3
    /\ cells[9].paste[2] + layout.thumb_h = layout.grid_h - 10
====
